---------------------------- MODULE Spec2Model ----------------------------
(***************************************************************************)
(* A model of the dbbasic-tsv Rust accelerator (src/rust/src/lib.rs):      *)
(* the line parser, the parallel batch parser, the index builder, the      *)
(* filter/count engine, group_by_sum and the buffered file reader/writer.  *)
(*                                                                         *)
(* Text is modelled as a sequence of one-character strings, so that the    *)
(* tab scan, the slicing and the line splitting are computed, not assumed. *)
(* A record (HashMap<String, String>) is a function from the set of its    *)
(* keys to text.                                                           *)
(***************************************************************************)
EXTENDS Integers, Sequences, FiniteSets, TLC

VARIABLES
    columns,       \* the schema argument of the calls
    line,          \* the line argument of parse_tsv_line_fast
    lines,         \* the lines argument of parse_tsv_batch_fast
    records,       \* the record collection argument of the calls
    conditions,    \* the condition set of the last filter/count call
    column,        \* index_column of the last build_index call
    sum_column,    \* sum_column of the last group_by_sum call
    file,          \* the file at file_path: <<>> if absent, else <<content>>
    append,        \* the append flag of the last write_tsv_batch_fast call
    limit,         \* the limit of the last read_tsv_file call: <<>> is None
    worker,        \* batch parse: the task each pool thread is running
    slots,         \* batch parse: the output positions written so far
    pc,            \* which call has returned (or where the batch call is)
    ret,           \* the value the last call returned
    row            \* the row buffer produced by the write logic

vars == <<columns, line, lines, records, conditions, column, sum_column,
          file, append, limit, worker, slots, pc, ret, row>>

-----------------------------------------------------------------------------
(* Bounds and input pools *)

MaxLineLen == 3
MaxColumns == 2

TAB == "\t"
LF == "\n"
CR == "\r"

Alphabet == {"a", "b", TAB}
ColumnPool == {"id", "name", "v"}

None == "None"

SeqsUpTo(S, n) == UNION {[1..k -> S] : k \in 0..n}

Lines == SeqsUpTo(Alphabet, MaxLineLen)

\* Schemas of distinct column names (the spec leaves duplicates undefined).
Schemas ==
    {s \in SeqsUpTo(ColumnPool, MaxColumns) :
        \A i, j \in 1..Len(s) : i # j => s[i] # s[j]}

Range(s) == {s[i] : i \in 1..Len(s)}

Min(a, b) == IF a < b THEN a ELSE b

-----------------------------------------------------------------------------
(* HashMap<String, String> *)

EmptyMap == [k \in {} |-> <<>>]

\* HashMap::insert: the value of an existing key is replaced.
Insert(m, k, v) == [x \in (DOMAIN m) \cup {k} |-> IF x = k THEN v ELSE m[x]]

\* HashMap::get(k).unwrap_or(default)
GetOr(m, k, default) == IF k \in DOMAIN m THEN m[k] ELSE default

-----------------------------------------------------------------------------
(* parse_tsv_line_fast *)

\* memchr_iter(needle, bytes): the 0-based positions of needle, ascending.
RECURSIVE memchr_from(_, _, _)
memchr_from(needle, bytes, i) ==
    IF i > Len(bytes) THEN <<>>
    ELSE (IF bytes[i] = needle THEN <<i - 1>> ELSE <<>>)
             \o memchr_from(needle, bytes, i + 1)

memchr_iter(needle, bytes) == memchr_from(needle, bytes, 1)

\* A slice that takes the delimiter in: bytes[from..=to], cut at the end
\* of the line.
SliceInclusive(bytes, from, to) ==
    SubSeq(bytes, from + 1, IF to < Len(bytes) THEN to + 1 ELSE to)

\* bytes[from..to] of Rust (0-based, to exclusive).  The line is a &str and
\* is cut only at ASCII tabs, so from_utf8 succeeds on every slice.
Slice(bytes, from, to) == SubSeq(bytes, from + 1, to)

\* The loop over the tab positions: st is [result, last_pos, col_idx].
RECURSIVE ScanTabs(_, _, _, _)
ScanTabs(bytes, cols, tabs, st) ==
    IF tabs = <<>> THEN st
    ELSE LET tab_pos == Head(tabs)
             st1 == IF st.col_idx < Len(cols)
                    THEN [st EXCEPT
                            !.result = Insert(st.result, cols[st.col_idx + 1],
                                              Slice(bytes, st.last_pos, tab_pos)),
                            !.col_idx = st.col_idx + 1]
                    ELSE st
         IN  ScanTabs(bytes, cols, Tail(tabs),
                      [st1 EXCEPT !.last_pos = tab_pos + 1])

\* "Handle last field": only when a column is left and bytes remain.
LastField(bytes, cols, st) ==
    IF st.col_idx < Len(cols) /\ st.last_pos < Len(bytes)
    THEN Insert(st.result, cols[st.col_idx + 1],
                Slice(bytes, st.last_pos, Len(bytes)))
    ELSE st.result

\* "Fill remaining columns": for i in from..columns.len() (0-based).
RECURSIVE FillRemaining(_, _, _)
FillRemaining(result, cols, from) ==
    IF from >= Len(cols) THEN result
    ELSE FillRemaining(Insert(result, cols[from + 1], <<>>), cols, from + 1)

parse_tsv_line_fast(ln, cols) ==
    LET bytes == ln
        st == ScanTabs(bytes, cols, memchr_iter(TAB, bytes),
                       [result |-> EmptyMap, last_pos |-> 0, col_idx |-> 0])
    IN  FillRemaining(LastField(bytes, cols, st), cols, st.col_idx + 1)

-----------------------------------------------------------------------------
(* The row-writing logic of write_tsv_batch_fast *)

\* record.get(col).unwrap_or(&String::new())
FieldOf(record, col) == GetOr(record, col, <<>>)

RECURSIVE RowFrom(_, _, _, _)
RowFrom(record, cols, i, row_buffer) ==
    IF i > Len(cols) THEN row_buffer
    ELSE RowFrom(record, cols, i + 1,
                 row_buffer \o (IF i > 1 THEN <<TAB>> ELSE <<>>)
                            \o FieldOf(record, cols[i]))

WriteRow(record, cols) == RowFrom(record, cols, 1, <<>>)

-----------------------------------------------------------------------------
(* Reference text operations the properties are stated with *)

\* The tab-delimited fields of a line: one more than the number of tabs.
RECURSIVE SplitOn(_, _, _)
SplitOn(sep, s, cur) ==
    IF s = <<>> THEN <<cur>>
    ELSE IF Head(s) = sep THEN <<cur>> \o SplitOn(sep, Tail(s), <<>>)
    ELSE SplitOn(sep, Tail(s), Append(cur, Head(s)))

Fields(ln) == SplitOn(TAB, ln, <<>>)

RECURSIVE JoinWith(_, _)
JoinWith(sep, fs) ==
    IF fs = <<>> THEN <<>>
    ELSE IF Len(fs) = 1 THEN fs[1]
    ELSE fs[1] \o <<sep>> \o JoinWith(sep, Tail(fs))

Take(s, n) == SubSeq(s, 1, Min(n, Len(s)))

-----------------------------------------------------------------------------
(* Specification SpecParse: one line, one schema; parse, then serialize *)

Unused ==
    /\ lines = <<>>
    /\ records = <<>>
    /\ conditions = EmptyMap
    /\ column = None
    /\ sum_column = None
    /\ file = <<>>
    /\ append = FALSE
    /\ limit = <<>>
    /\ worker = <<>>
    /\ slots = <<>>
    /\ ret = None
    /\ row = None

InitParse ==
    /\ line \in Lines
    /\ columns \in Schemas
    /\ pc = "start"
    /\ Unused

CallParseLine ==
    /\ pc = "start"
    /\ ret' = parse_tsv_line_fast(line, columns)
    /\ pc' = "parsed"
    /\ UNCHANGED <<columns, line, lines, records, conditions, column,
                   sum_column, file, append, limit, worker, slots, row>>

\* The body of the record loop of write_tsv_batch_fast on the parsed record.
SerializeParsed ==
    /\ pc = "parsed"
    /\ row' = WriteRow(ret, columns)
    /\ pc' = "serialized"
    /\ UNCHANGED <<columns, line, lines, records, conditions, column,
                   sum_column, file, append, limit, worker, slots, ret>>

NextParse == CallParseLine \/ SerializeParsed

SpecParse == InitParse /\ [][NextParse]_vars

-----------------------------------------------------------------------------
(* C1 *)

NumFields(ln) == Len(Fields(ln))

\* C1: the record parse_tsv_line_fast returns has exactly the schema's
\* columns as keys, and every column at or beyond the number of fields of
\* the line, and the column of an empty final field, maps to the empty text.
C1_AllColumnsPresent ==
    pc = "parsed" =>
        /\ DOMAIN ret = Range(columns)
        /\ \A i \in 1..Len(columns) :
              (i > NumFields(line) \/ Fields(line)[i] = <<>>)
                  => ret[columns[i]] = <<>>

-----------------------------------------------------------------------------
(* C9 *)

\* The fields the round trip must give back: those of the line, cut to the
\* schema's length and padded with empty fields up to it.
AlignedFields(ln, n) ==
    [i \in 1..n |-> IF i <= NumFields(ln) THEN Fields(ln)[i] ELSE <<>>]

\* C9: parsing a line and re-serializing the record with the write logic
\* gives back every field of the line in its position, with empty fields
\* for the columns beyond them, and the line cut to its first |S| fields
\* when it has more fields than the schema has columns.
C9_ParseSerializeRoundTrip ==
    pc = "serialized" =>
        /\ row = JoinWith(TAB, AlignedFields(line, Len(columns)))
        /\ NumFields(line) > Len(columns)
              => row = JoinWith(TAB, Take(Fields(line), Len(columns)))
        /\ NumFields(line) <= Len(columns)
              => \A i \in 1..NumFields(line) : Fields(row)[i] = Fields(line)[i]

\* A line with fewer fields than columns, one of them not empty, serialized.
C9_Witness ==
    /\ pc = "serialized"
    /\ NumFields(line) = 2
    /\ Len(columns) = 2
    /\ Fields(line)[2] = <<>>
    /\ Fields(line)[1] # <<>>

-----------------------------------------------------------------------------
(* parse_tsv_batch_fast *)

MaxBatch == 2
NumWorkers == 2

BatchLinePool == {<<>>, <<"a">>, <<"a", TAB>>, <<"b", TAB, "a">>}

\* The closure mapped over the lines: the same tab loop and last-field step
\* as parse_tsv_line_fast (lines 58-74 repeat lines 18-35), and then the
\* record is returned as it is.
BatchParseLine(ln, cols) ==
    LET bytes == ln
        st == ScanTabs(bytes, cols, memchr_iter(TAB, bytes),
                       [result |-> EmptyMap, last_pos |-> 0, col_idx |-> 0])
    IN  LastField(bytes, cols, st)

\* A collect that pushes each item as its task ends (completion order).
CollectInCompletionOrder(out, i, item) ==
    LET free == {j \in DOMAIN out : out[j] = <<>>}
        first == CHOOSE j \in free : \A k \in free : j <= k
    IN  [out EXCEPT ![first] = <<item>>]

\* collect() of an indexed parallel iterator into a Vec: the item of input
\* position i is written to output position i.
Collect(out, i, item) == [out EXCEPT ![i] = <<item>>]

\* The tasks taken and not ended; a thread holds <<i>>, or <<>> when idle.
Running == {worker[w][1] : w \in {v \in DOMAIN worker : worker[v] # <<>>}}

InitBatch ==
    /\ lines \in SeqsUpTo(BatchLinePool, MaxBatch)
    /\ columns \in Schemas
    /\ pc = "start"
    /\ line = <<>>
    /\ records = <<>>
    /\ conditions = EmptyMap
    /\ column = None
    /\ sum_column = None
    /\ file = <<>>
    /\ append = FALSE
    /\ limit = <<>>
    /\ worker = <<>>
    /\ slots = <<>>
    /\ ret = None
    /\ row = None

\* The call enters the thread pool: an output of lines.len() positions.
BatchStart ==
    /\ pc = "start"
    /\ slots' = [i \in 1..Len(lines) |-> <<>>]
    /\ worker' = [w \in 1..NumWorkers |-> <<>>]
    /\ pc' = "running"
    /\ UNCHANGED <<columns, line, lines, records, conditions, column,
                   sum_column, file, append, limit, ret, row>>

\* A pool thread takes a line no thread has taken.
TakeTask(w, i) ==
    /\ pc = "running"
    /\ worker[w] = <<>>
    /\ slots[i] = <<>>
    /\ i \notin Running
    /\ worker' = [worker EXCEPT ![w] = <<i>>]
    /\ UNCHANGED <<columns, line, lines, records, conditions, column,
                   sum_column, file, append, limit, slots, pc, ret, row>>

\* The thread ends its task: the closure's record goes to the output.
FinishTask(w) ==
    /\ pc = "running"
    /\ worker[w] # <<>>
    /\ slots' = Collect(slots, worker[w][1],
                        BatchParseLine(lines[worker[w][1]], columns))
    /\ worker' = [worker EXCEPT ![w] = <<>>]
    /\ UNCHANGED <<columns, line, lines, records, conditions, column,
                   sum_column, file, append, limit, pc, ret, row>>

\* The blocking join: collect() returns once every task has ended.
BatchJoin ==
    /\ pc = "running"
    /\ Running = {}
    /\ \A i \in DOMAIN slots : slots[i] # <<>>
    /\ ret' = [i \in DOMAIN slots |-> slots[i][1]]
    /\ pc' = "done"
    /\ UNCHANGED <<columns, line, lines, records, conditions, column,
                   sum_column, file, append, limit, worker, slots, row>>

NextBatch ==
    \/ BatchStart
    \/ \E w \in 1..NumWorkers : \E i \in 1..Len(lines) : TakeTask(w, i)
    \/ \E w \in 1..NumWorkers : FinishTask(w)
    \/ BatchJoin

SpecBatch == InitBatch /\ [][NextBatch]_vars

-----------------------------------------------------------------------------
(* C2 *)

\* C2: the batch returns one record per line and the i-th record equals
\* the record parse_tsv_line_fast returns for the i-th line.
C2_BatchEqualsLineParser ==
    pc = "done" =>
        /\ Len(ret) = Len(lines)
        /\ \A i \in 1..Len(lines) :
              ret[i] = parse_tsv_line_fast(lines[i], columns)

-----------------------------------------------------------------------------
(* C4 *)

\* A sequential left-to-right parse of the lines with the batch's closure.
RECURSIVE SequentialParse(_, _)
SequentialParse(lns, cols) ==
    IF lns = <<>> THEN <<>>
    ELSE <<BatchParseLine(Head(lns), cols)>> \o SequentialParse(Tail(lns), cols)

\* C4: whatever the order in which the pool threads take and end the tasks,
\* the call returns only when no task is running or left, and the result is
\* the sequence a sequential left-to-right parse produces.
C4_OrderStableUnderScheduling ==
    pc = "done" =>
        /\ Running = {}
        /\ \A i \in 1..Len(lines) : slots[i] # <<>>
        /\ ret = SequentialParse(lines, columns)

\* Two lines with different records, the second one ended first.
C4_Witness ==
    /\ pc = "running"
    /\ Len(lines) = 2
    /\ slots[1] = <<>>
    /\ slots[2] # <<>>
    /\ BatchParseLine(lines[1], columns) # BatchParseLine(lines[2], columns)

-----------------------------------------------------------------------------
(* filter_records_fast, count_matching_fast, build_index *)

MaxRecords == 2

QueryColumns == {"k", "v"}
QueryValues == {<<>>, <<"a">>, <<"b">>}

\* Every record over a subset of the given columns.
RecordsOver(C, V) == UNION {[D -> V] : D \in SUBSET C}

\* A predicate satisfied as soon as one condition is.
MatchesAny(record, conds) ==
    \E key \in DOMAIN conds :
        key \in DOMAIN record /\ record[key] = conds[key]

\* condition_vec.iter().all(|(key, value)|
\*     record.get(*key).map_or(false, |v| v == *value))
Matches(record, conds) ==
    \A key \in DOMAIN conds :
        key \in DOMAIN record /\ record[key] = conds[key]

\* into_par_iter().filter(..).collect(): the items that pass, in input order
\* (collect keeps the input order, as modelled for the batch parser).
RECURSIVE ParFilter(_, _)
ParFilter(recs, conds) ==
    IF recs = <<>> THEN <<>>
    ELSE (IF Matches(Head(recs), conds) THEN <<Head(recs)>> ELSE <<>>)
             \o ParFilter(Tail(recs), conds)

filter_records_fast(recs, conds) ==
    IF DOMAIN conds = {} THEN recs ELSE ParFilter(recs, conds)

\* A count of the records that satisfy at least one condition.
count_matching_any(recs, conds) ==
    IF DOMAIN conds = {} THEN Len(recs)
    ELSE Cardinality({i \in 1..Len(recs) : MatchesAny(recs[i], conds)})

\* par_iter().filter(..).count()
count_matching_fast(recs, conds) ==
    IF DOMAIN conds = {} THEN Len(recs)
    ELSE Cardinality({i \in 1..Len(recs) : Matches(recs[i], conds)})

\* index.entry(key).or_insert_with(Vec::new).push(row_num)
PushEntry(index, key, row_num) ==
    Insert(index, key, Append(GetOr(index, key, <<>>), row_num))

\* An index that numbers only the records that have the column.
RECURSIVE IndexLoopCounted(_, _, _, _)
IndexLoopCounted(recs, index_column, row_num, index) ==
    IF recs = <<>> THEN index
    ELSE IF index_column \in DOMAIN Head(recs)
         THEN IndexLoopCounted(Tail(recs), index_column, row_num + 1,
                        PushEntry(index, Head(recs)[index_column], row_num))
         ELSE IndexLoopCounted(Tail(recs), index_column, row_num, index)

\* for (row_num, record) in records.iter().enumerate()
RECURSIVE IndexLoop(_, _, _, _)
IndexLoop(recs, index_column, row_num, index) ==
    IF recs = <<>> THEN index
    ELSE IndexLoop(Tail(recs), index_column, row_num + 1,
                   IF index_column \in DOMAIN Head(recs)
                   THEN PushEntry(index, Head(recs)[index_column], row_num)
                   ELSE index)

build_index(recs, index_column) == IndexLoop(recs, index_column, 0, EmptyMap)

InitQuery ==
    /\ records \in SeqsUpTo(RecordsOver(QueryColumns, QueryValues), MaxRecords)
    /\ pc = "start"
    /\ columns = <<>>
    /\ line = <<>>
    /\ lines = <<>>
    /\ conditions = EmptyMap
    /\ column = None
    /\ sum_column = None
    /\ file = <<>>
    /\ append = FALSE
    /\ limit = <<>>
    /\ worker = <<>>
    /\ slots = <<>>
    /\ ret = None
    /\ row = None

CallFilter(conds) ==
    /\ pc = "start"
    /\ conditions' = conds
    /\ ret' = filter_records_fast(records, conds)
    /\ pc' = "filtered"
    /\ UNCHANGED <<columns, line, lines, records, column, sum_column, file,
                   append, limit, worker, slots, row>>

CallCount(conds) ==
    /\ pc = "start"
    /\ conditions' = conds
    /\ ret' = count_matching_fast(records, conds)
    /\ pc' = "counted"
    /\ UNCHANGED <<columns, line, lines, records, column, sum_column, file,
                   append, limit, worker, slots, row>>

CallBuildIndex(index_column) ==
    /\ pc = "start"
    /\ column' = index_column
    /\ ret' = build_index(records, index_column)
    /\ pc' = "indexed"
    /\ UNCHANGED <<columns, line, lines, records, conditions, sum_column,
                   file, append, limit, worker, slots, row>>

NextQuery ==
    \/ \E conds \in RecordsOver(QueryColumns, QueryValues) : CallFilter(conds)
    \/ \E conds \in RecordsOver(QueryColumns, QueryValues) : CallCount(conds)
    \/ \E index_column \in QueryColumns \cup {"missing"} :
          CallBuildIndex(index_column)

SpecQuery == InitQuery /\ [][NextQuery]_vars

-----------------------------------------------------------------------------
(* C5 *)

\* The record contains every conditioned column with exactly that value.
Satisfies(record, conds) ==
    \A c \in DOMAIN conds : c \in DOMAIN record /\ record[c] = conds[c]

\* The records at the positions of idx, by ascending position.
RECURSIVE PickAscending(_, _, _)
PickAscending(recs, idx, i) ==
    IF i > Len(recs) THEN <<>>
    ELSE (IF i \in idx THEN <<recs[i]>> ELSE <<>>)
             \o PickAscending(recs, idx, i + 1)

\* C5: filter_records_fast returns, in the original order, exactly the
\* records that contain every conditioned column with the required value;
\* no returned record lacks a conditioned column, a record used as the
\* condition set is returned, and the empty condition set returns the input.
C5_FilterIsOrderedSubsequence ==
    pc = "filtered" =>
        /\ ret = PickAscending(records,
                     {i \in 1..Len(records) : Satisfies(records[i], conditions)}, 1)
        /\ \A j \in 1..Len(ret) : DOMAIN conditions \subseteq DOMAIN ret[j]
        /\ \A i \in 1..Len(records) :
              records[i] = conditions => \E j \in 1..Len(ret) : ret[j] = records[i]
        /\ DOMAIN conditions = {} => ret = records

\* A filter that keeps the second of two records and drops the first, which
\* lacks a conditioned column.
C5_Witness ==
    /\ pc = "filtered"
    /\ Len(records) = 2
    /\ DOMAIN conditions # {}
    /\ ~(DOMAIN conditions \subseteq DOMAIN records[1])
    /\ ret = <<records[2]>>

-----------------------------------------------------------------------------
(* C6 *)

\* C6: count_matching_fast returns the length of what filter_records_fast
\* returns for the same records and conditions.
C6_CountEqualsFilterLength ==
    pc = "counted" => ret = Len(filter_records_fast(records, conditions))

\* A count of one among two records, with a condition on a column that the
\* other record lacks.
C6_Witness ==
    /\ pc = "counted"
    /\ Len(records) = 2
    /\ ret = 1
    /\ \E i \in 1..2 : ~(DOMAIN conditions \subseteq DOMAIN records[i])

-----------------------------------------------------------------------------
(* C7 *)

\* The 0-based positions of the records whose column c has the value v.
PositionsOf(recs, c, v) ==
    {i - 1 : i \in {j \in 1..Len(recs) : c \in DOMAIN recs[j] /\ recs[j][c] = v}}

\* C7: the keys of the index are the values observed in the column, and the
\* positions listed for a value are exactly the 0-based positions of the
\* records holding it, strictly ascending; records lacking the column add
\* nothing and shift nothing.
C7_IndexPositionsExact ==
    pc = "indexed" =>
        /\ DOMAIN ret = {records[i][column] :
                            i \in {j \in 1..Len(records) : column \in DOMAIN records[j]}}
        /\ \A v \in DOMAIN ret :
              /\ Range(ret[v]) = PositionsOf(records, column, v)
              /\ \A a, b \in 1..Len(ret[v]) : a < b => ret[v][a] < ret[v][b]

\* A record lacking the column stands before a record that has it.
C7_Witness ==
    /\ pc = "indexed"
    /\ Len(records) = 2
    /\ column \notin DOMAIN records[1]
    /\ column \in DOMAIN records[2]
    /\ ret[records[2][column]] = <<1>>

-----------------------------------------------------------------------------
(* group_by_sum *)

MaxSumRecords == 3

GroupValues == {<<"x">>, <<"y">>}
SumValues == {<<"1", "0">>, <<"a", "b", "c">>, <<"5">>, <<"-", "5">>}

SumRecords ==
    {r \in RecordsOver({"g", "v"}, GroupValues \cup SumValues) :
        /\ "g" \in DOMAIN r => r["g"] \in GroupValues
        /\ "v" \in DOMAIN r => r["v"] \in SumValues}

Digits == {"0", "1", "2", "3", "4", "5", "6", "7", "8", "9"}

DigitValue(c) ==
    CASE c = "0" -> 0 [] c = "1" -> 1 [] c = "2" -> 2 [] c = "3" -> 3
      [] c = "4" -> 4 [] c = "5" -> 5 [] c = "6" -> 6 [] c = "7" -> 7
      [] c = "8" -> 8 [] c = "9" -> 9

RECURSIVE DecimalValue(_, _)
DecimalValue(s, acc) ==
    IF s = <<>> THEN acc
    ELSE DecimalValue(Tail(s), 10 * acc + DigitValue(Head(s)))

\* value_str.parse::<f64>() on text made of an optional sign and decimal
\* digits, or of letters that spell none of inf, infinity, nan or an
\* exponent: <<n>> for Ok(n), <<>> for Err.  No surrounding white space is
\* accepted and the empty text is an error.  The sums of such values are
\* exact in f64.
ParseF64(s) ==
    LET signed == s # <<>> /\ Head(s) \in {"+", "-"}
        body == IF signed THEN Tail(s) ELSE s
    IN  IF body # <<>> /\ \A i \in 1..Len(body) : body[i] \in Digits
        THEN <<(IF signed /\ Head(s) = "-" THEN -1 ELSE 1) * DecimalValue(body, 0)>>
        ELSE <<>>

\* A loop body that counts a value that does not parse as zero.
SumStepZero(sums, record, group_column, sum_col) ==
    IF group_column \in DOMAIN record /\ sum_col \in DOMAIN record
    THEN LET parsed == ParseF64(record[sum_col])
             value == IF parsed # <<>> THEN parsed[1] ELSE 0
         IN  Insert(sums, record[group_column],
                    GetOr(sums, record[group_column], 0) + value)
    ELSE sums

\* The loop body: if let (Some(group), Some(value_str)) = .. {
\*     if let Ok(value) = value_str.parse::<f64>() {
\*         *sums.entry(group.clone()).or_insert(0.0) += value; } }
SumStep(sums, record, group_column, sum_col) ==
    IF group_column \in DOMAIN record /\ sum_col \in DOMAIN record
    THEN LET parsed == ParseF64(record[sum_col])
         IN  IF parsed # <<>>
             THEN Insert(sums, record[group_column],
                         GetOr(sums, record[group_column], 0) + parsed[1])
             ELSE sums
    ELSE sums

RECURSIVE SumLoop(_, _, _, _)
SumLoop(recs, group_column, sum_col, sums) ==
    IF recs = <<>> THEN sums
    ELSE SumLoop(Tail(recs), group_column, sum_col,
                 SumStep(sums, Head(recs), group_column, sum_col))

group_by_sum(recs, group_column, sum_col) ==
    SumLoop(recs, group_column, sum_col, EmptyMap)

InitSum ==
    /\ records \in SeqsUpTo(SumRecords, MaxSumRecords)
    /\ pc = "start"
    /\ columns = <<>>
    /\ line = <<>>
    /\ lines = <<>>
    /\ conditions = EmptyMap
    /\ column = None
    /\ sum_column = None
    /\ file = <<>>
    /\ append = FALSE
    /\ limit = <<>>
    /\ worker = <<>>
    /\ slots = <<>>
    /\ ret = None
    /\ row = None

CallGroupBySum(group_column, sum_col) ==
    /\ pc = "start"
    /\ column' = group_column
    /\ sum_column' = sum_col
    /\ ret' = group_by_sum(records, group_column, sum_col)
    /\ pc' = "summed"
    /\ UNCHANGED <<columns, line, lines, records, conditions, file, append,
                   limit, worker, slots, row>>

NextSum ==
    \E group_column, sum_col \in {"g", "v"} :
        CallGroupBySum(group_column, sum_col)

SpecSum == InitSum /\ [][NextSum]_vars

-----------------------------------------------------------------------------
(* C8 *)

\* The positions of the records of group g that have both columns and a
\* sum value that parses as a number.
Contributing(recs, gcol, scol, g) ==
    {i \in 1..Len(recs) :
        /\ gcol \in DOMAIN recs[i]
        /\ scol \in DOMAIN recs[i]
        /\ recs[i][gcol] = g
        /\ ParseF64(recs[i][scol]) # <<>>}

RECURSIVE SumOver(_, _, _)
SumOver(recs, scol, idx) ==
    IF idx = {} THEN 0
    ELSE LET i == CHOOSE j \in idx : TRUE
         IN  ParseF64(recs[i][scol])[1] + SumOver(recs, scol, idx \ {i})

\* C8: group_by_sum returns a mapping (it has no failing path) whose keys are
\* the group values with at least one record that has both columns and a
\* sum value that parses, each mapped to the sum of those parsed values; a
\* value that does not parse adds nothing and no key.
C8_SumSkipsUnparseable ==
    pc = "summed" =>
        /\ DOMAIN ret =
              {g \in {records[i][column] :
                         i \in {j \in 1..Len(records) : column \in DOMAIN records[j]}} :
                  Contributing(records, column, sum_column, g) # {}}
        /\ \A g \in DOMAIN ret :
              ret[g] = SumOver(records, sum_column,
                               Contributing(records, column, sum_column, g))

\* The spec's example: the values "10", "abc", "5" of one group sum to 15.
C8_Witness ==
    /\ pc = "summed"
    /\ column = "g"
    /\ sum_column = "v"
    /\ Len(records) = 3
    /\ \A i \in 1..3 : DOMAIN records[i] = {"g", "v"} /\ records[i]["g"] = <<"x">>
    /\ records[1]["v"] = <<"1", "0">>
    /\ records[2]["v"] = <<"a", "b", "c">>
    /\ records[3]["v"] = <<"5">>
    /\ ret = [g \in {<<"x">>} |-> 15]

-----------------------------------------------------------------------------
(* write_tsv_batch_fast and read_tsv_file *)

MaxFileRecords == 2
MaxFileLines == 4
MaxLimit == 3

FileColumns == {"id", "name"}
FileValues == {<<>>, <<"a">>, <<"a", CR>>}

FileSchemas ==
    {s \in SeqsUpTo(FileColumns, Cardinality(FileColumns)) :
        \A i, j \in 1..Len(s) : i # j => s[i] # s[j]}

\* The text of a column name, kept as one unit of text: the names of the
\* pools hold no tab and no line break.
NameText(col) == <<col>>

\* columns.join("\t")
RECURSIVE JoinColumns(_, _)
JoinColumns(cols, i) ==
    IF i > Len(cols) THEN <<>>
    ELSE (IF i > 1 THEN <<TAB>> ELSE <<>>) \o NameText(cols[i])
             \o JoinColumns(cols, i + 1)

\* for record in &records { .. writeln!(writer, "{}", row_buffer) }
RECURSIVE WriteRows(_, _)
WriteRows(recs, cols) ==
    IF recs = <<>> THEN <<>>
    ELSE WriteRow(Head(recs), cols) \o <<LF>> \o WriteRows(Tail(recs), cols)

\* The content of the file after the call.  f is <<>> when the file does not
\* exist and <<content>> when it does: append keeps the content (creating
\* the file if absent) and File::create truncates, then writes the header.
write_tsv_batch_fast(f, cols, recs, app) ==
    LET old == IF app /\ f # <<>> THEN f[1] ELSE <<>>
        header == IF ~app THEN JoinColumns(cols, 1) \o <<LF>> ELSE <<>>
    IN  old \o header \o WriteRows(recs, cols)

\* BufRead::lines(): the content cut at each "\n"; a line that ended in
\* "\n" also loses a "\r" before it; a last line without "\n" is kept as is.
RECURSIVE ReadLines(_, _)
ReadLines(content, cur) ==
    IF content = <<>> THEN (IF cur = <<>> THEN <<>> ELSE <<cur>>)
    ELSE IF Head(content) = LF
         THEN <<IF cur # <<>> /\ cur[Len(cur)] = CR
                THEN SubSeq(cur, 1, Len(cur) - 1) ELSE cur>>
                  \o ReadLines(Tail(content), <<>>)
         ELSE ReadLines(Tail(content), Append(cur, Head(content)))

\* reader.lines().skip(1)
SkipHeader(lns) == IF lns = <<>> THEN <<>> ELSE Tail(lns)

\* A limit test that lets one line too many through: lines_read > max.
RECURSIVE ReadLoopOffByOne(_, _, _, _, _)
ReadLoopOffByOne(rest, cols, lim, lines_read, recs) ==
    IF rest = <<>> THEN recs
    ELSE IF lim # <<>> /\ lines_read > lim[1] THEN recs
    ELSE ReadLoopOffByOne(Tail(rest), cols, lim, lines_read + 1,
                  Append(recs, parse_tsv_line_fast(Head(rest), cols)))

\* The loop of read_tsv_file: lim is <<>> for None and <<max>> for Some(max).
RECURSIVE ReadLoop(_, _, _, _, _)
ReadLoop(rest, cols, lim, lines_read, recs) ==
    IF rest = <<>> THEN recs
    ELSE IF lim # <<>> /\ lines_read >= lim[1] THEN recs
    ELSE ReadLoop(Tail(rest), cols, lim, lines_read + 1,
                  Append(recs, parse_tsv_line_fast(Head(rest), cols)))

\* File::open fails on a file that does not exist; the pools hold valid
\* text only, so no line fails to decode.
read_tsv_file(f, cols, lim) ==
    IF f = <<>> THEN [ok |-> FALSE, value |-> <<>>]
    ELSE [ok |-> TRUE,
          value |-> ReadLoop(SkipHeader(ReadLines(f[1], <<>>)), cols, lim, 0, <<>>)]

Limits == {<<>>} \cup {<<k>> : k \in 0..MaxLimit}

InitFile ==
    /\ columns \in FileSchemas
    /\ records \in SeqsUpTo(RecordsOver(FileColumns, FileValues), MaxFileRecords)
    /\ file = <<>>
    /\ pc = "start"
    /\ line = <<>>
    /\ lines = <<>>
    /\ conditions = EmptyMap
    /\ column = None
    /\ sum_column = None
    /\ append = FALSE
    /\ limit = <<>>
    /\ worker = <<>>
    /\ slots = <<>>
    /\ ret = None
    /\ row = None

\* write_tsv_batch_fast(file_path, columns, records, app); the file is kept
\* to MaxFileLines lines.
CallWrite(app) ==
    /\ LET content == write_tsv_batch_fast(file, columns, records, app)
       IN  /\ Len(ReadLines(content, <<>>)) <= MaxFileLines
           /\ file' = <<content>>
    /\ append' = app
    /\ ret' = [ok |-> TRUE, value |-> Len(records)]
    /\ pc' = "written"
    /\ UNCHANGED <<columns, line, lines, records, conditions, column,
                   sum_column, limit, worker, slots, row>>

\* read_tsv_file(file_path, columns, lim)
CallRead(lim) ==
    /\ limit' = lim
    /\ ret' = read_tsv_file(file, columns, lim)
    /\ pc' = "read"
    /\ UNCHANGED <<columns, line, lines, records, conditions, column,
                   sum_column, file, append, worker, slots, row>>

NextFile ==
    \/ \E app \in BOOLEAN : CallWrite(app)
    \/ \E lim \in Limits : CallRead(lim)

SpecFile == InitFile /\ [][NextFile]_vars

-----------------------------------------------------------------------------
(* C3 *)

\* The records the round trip is claimed for: the key set is the schema and
\* no value holds a tab or a line feed.
RoundTripInput(recs, cols) ==
    \A i \in 1..Len(recs) :
        /\ DOMAIN recs[i] = Range(cols)
        /\ \A c \in DOMAIN recs[i] :
              \A k \in 1..Len(recs[i][c]) : recs[i][c][k] \notin {TAB, LF}

\* The file is as a write with append = false of the records left it.
FreshlyWritten ==
    /\ file # <<>>
    /\ file[1] = write_tsv_batch_fast(<<>>, columns, records, FALSE)
    /\ append = FALSE

\* C3: after a write with append = false, a read with the same schema and
\* no limit returns the records written.
C3_WriteReadRoundTrip ==
    (pc = "read" /\ FreshlyWritten /\ limit = <<>>
        /\ RoundTripInput(records, columns))
        => (ret.ok /\ ret.value = records)

-----------------------------------------------------------------------------
(* C10 *)

\* The number of lines after the first line of the file.
DataLines(f) == Len(SkipHeader(ReadLines(f[1], <<>>)))

\* C10: a read with limit k returns the first min(k, D) records of what the
\* read without a limit returns, a read without a limit returns D records,
\* the i-th record is the parse of line i + 1 of the file (never the first
\* line), and reaching the limit is no error.
C10_LimitIsPrefix ==
    (pc = "read" /\ file # <<>>) =>
        LET D == DataLines(file)
            n == IF limit = <<>> THEN D ELSE Min(limit[1], D)
            unlimited == read_tsv_file(file, columns, <<>>)
        IN  /\ ret.ok
            /\ Len(ret.value) = n
            /\ ret.value = Take(unlimited.value, n)
            /\ \A i \in 1..n :
                  ret.value[i] =
                      parse_tsv_line_fast(ReadLines(file[1], <<>>)[i + 1], columns)

\* A read stopped by its limit with a line left in the file.
C10_Witness ==
    /\ pc = "read"
    /\ file # <<>>
    /\ limit = <<2>>
    /\ DataLines(file) = 3
    /\ Len(ret.value) = 2
    /\ ret.value[1] # ret.value[2]

=============================================================================
